---- MODULE Spec2Model ----
\* Session-to-room authorization and lifecycle of live sessions:
\* the server actions createMeetingRoom, getMeetingRoom, updateSessionStatus and
\* generateAgoraToken (app/teacher/sessions/_components/CreateSessionForm.tsx,
\* lines 462-636), run by several callers whose requests interleave at each await.
EXTENDS Integers, Sequences, FiniteSets, TLC

\* ---------------------------------------------------------------------------
\* Bounds of the model
\* ---------------------------------------------------------------------------
\* Largest wall-clock value (milliseconds) the clock reaches.
MaxTime == 2
\* The history counters of writes saturate at this value.
WriteCap == 2

\* ---------------------------------------------------------------------------
\* Program constants
\* ---------------------------------------------------------------------------
\* const expirationTimeInSeconds = 3600;
expirationTimeInSeconds == 3600
\* Math.floor(Date.now() / 1000)
MsPerSecond == 1000

\* ---------------------------------------------------------------------------
\* Identities, session ids, channel names
\* ---------------------------------------------------------------------------
\* User accounts: T is the user of the session's teacher profile, L the student,
\* X an authenticated account that is no party of the session.
Users == {"T", "L", "X"}
\* A request that carries no authenticated session (session?.user?.id is undefined).
Anon == "anon"
Callers == Users \cup {Anon}
\* s1 has a liveSession row; s2 has none.
SessionIds == {"s1", "s2"}
\* The status values the signature of updateSessionStatus admits.
StatusArgs == {"in_progress", "completed"}
\* The uid strings the video client sends with a token request.
AgoraUids == {"teacher", "student"}

VARIABLES
    db,         \* prisma.liveSession: session id -> row, for the rows that exist
    now,        \* the wall clock, Date.now() / new Date(), in milliseconds
    env,        \* process.env and the availability of the token package
    pc,         \* per caller: "idle", or "update" between the read and the write
                \* of updateSessionStatus
    req,        \* per caller: the locals of the updateSessionStatus in flight
    last,       \* the most recently completed call: caller, arguments, outcome
    firstJoin,  \* history: per session, the callers whose updateSessionStatus(
                \* in_progress) read status scheduled and returned success
    writes,     \* history: per session, how many update calls wrote the actual
                \* start time / the actual end time (saturating at WriteCap)
    firstRoom,  \* history: per session id, the first room id a call produced
    client,     \* per user of the video client: the state of their VideoCall
                \* component and the position of its handler in flight
    firstStart  \* history: the first actual start time a join of the video
                \* client committed

vars == <<db, now, env, pc, req, last, firstJoin, writes, firstRoom,
          client, firstStart>>

\* The variables the server actions called directly leave alone.
clientVars == <<client, firstStart>>

\* ---------------------------------------------------------------------------
\* Values
\* ---------------------------------------------------------------------------
\* An optional value is <<>> (null / undefined) or <<v>>.
Null == <<>>
Some(v) == <<v>>

NoReq == [sessionId |-> "", status |-> "", seen |-> ""]
NoRet == [none |-> TRUE]
NoCall == [caller |-> "", op |-> "", sessionId |-> "", arg |-> "",
           outcome |-> "", seen |-> "", ret |-> NoRet]

\* Outcomes of a call: "ok", or the way it was rejected.
Redirect == "redirect:/sign-in"
NotFound == "Session not found"
Unauthorized == "Unauthorized to access this session"
ConfigError == "Video service configuration error"
InitError == "Failed to initialize video session"

Min(a, b) == IF a < b THEN a ELSE b

\* ---------------------------------------------------------------------------
\* Collaborators
\* ---------------------------------------------------------------------------
\* auth.api.getSession(...): session?.user?.id of the request.
SessionUserId(caller) == IF caller = Anon THEN Null ELSE Some(caller)

\* prisma.liveSession.findUnique({ where: { id } }): the row or null.
findUnique(table, sessionId) ==
    IF sessionId \in DOMAIN table THEN Some(table[sessionId]) ELSE Null

\* ---------------------------------------------------------------------------
\* Pure parts of the server actions
\* ---------------------------------------------------------------------------
\* const isTeacher = liveSession.teacher.userId === session.user.id;
isTeacher(liveSession, userId) == liveSession.teacherUserId = userId

\* const isStudent = liveSession.studentId === session.user.id;
isStudent(liveSession, userId) == liveSession.studentId = userId

\* Mutant: the party check admits every authenticated caller.
PartyCheckDropped(liveSession, userId) == TRUE

\* if (!isTeacher && !isStudent) throw ...: the callers let through.
IsParty(liveSession, userId) ==
    isTeacher(liveSession, userId) \/ isStudent(liveSession, userId)

\* Mutant: a missing row is reported as an authorization failure.
GuardConflatesNotFound(table, caller, sessionId) ==
    IF SessionUserId(caller) = Null THEN Redirect
    ELSE IF findUnique(table, sessionId) = Null THEN Unauthorized
    ELSE IF ~IsParty(findUnique(table, sessionId)[1], SessionUserId(caller)[1])
         THEN Unauthorized
    ELSE "ok"

\* The guard the three session actions share: sign-in, row lookup, party check.
\* "ok", or the outcome the action ends with before doing anything else.
Guard(table, caller, sessionId) ==
    IF SessionUserId(caller) = Null THEN Redirect
    ELSE IF findUnique(table, sessionId) = Null THEN NotFound
    ELSE IF ~IsParty(findUnique(table, sessionId)[1], SessionUserId(caller)[1])
         THEN Unauthorized
    ELSE "ok"

\* const meetingRoomId = `room_${sessionId}_${Date.now()}`;   (createMeetingRoom)
createRoomId(sessionId, t) == "room_" \o sessionId \o "_" \o ToString(t)

\* Mutant: the room id leaves the session id out.
getRoomIdShared(sessionId) == "room_"

\* roomId: `room_${sessionId}`                                  (getMeetingRoom)
getRoomId(sessionId) == "room_" \o sessionId

\* The object getMeetingRoom returns for a row, as far as the video client
\* reads it: return { sessionId, roomId, isTeacher, isStudent, ..., status }.
MeetingRoom(liveSession, userId, sessionId) ==
    [roomId |-> getRoomId(sessionId), sessionId |-> sessionId,
     isTeacher |-> isTeacher(liveSession, userId),
     isStudent |-> isStudent(liveSession, userId),
     status |-> liveSession.status]

\* Mutant: the update also releases the booking of the student.
StatusDataClearsStudent(row, status, t) ==
    [row EXCEPT !.status = status,
                !.studentId = "",
                !.actualStartTime = IF status = "in_progress" THEN Some(t) ELSE @,
                !.actualEndTime = IF status = "completed" THEN Some(t) ELSE @]

\* Mutant: the update stores the client's word for the status it was asked for.
StatusDataStoresClientWord(row, status, t) ==
    [row EXCEPT !.status = IF status = "in_progress" THEN "InProgress" ELSE "Completed",
                !.actualStartTime = IF status = "in_progress" THEN Some(t) ELSE @,
                !.actualEndTime = IF status = "completed" THEN Some(t) ELSE @]

\* Mutant: the update stamps the start time whatever the status written.
StatusDataStartAlways(row, status, t) ==
    [row EXCEPT !.status = status,
                !.actualStartTime = Some(t),
                !.actualEndTime = IF status = "completed" THEN Some(t) ELSE @]

\* data: { status, ...(status === "in_progress" && { actualStartTime: new Date() }),
\*                 ...(status === "completed" && { actualEndTime: new Date() }) }
\* applied to the row: the update is unconditional on the row's current status.
StatusData(row, status, t) ==
    [row EXCEPT !.status = status,
                !.actualStartTime = IF status = "in_progress" THEN Some(t) ELSE @,
                !.actualEndTime = IF status = "completed" THEN Some(t) ELSE @]

\* Mutant: createMeetingRoom stores the status of its meetingData in the row.
RoomUpdateWritesStatus(row) == [row EXCEPT !.status = "scheduled"]

\* prisma.liveSession.update({ where, data: { } }) of createMeetingRoom: every
\* field of data is commented out, so the row keeps its values.
RoomUpdateData(row) == row

\* RtcTokenBuilder.buildTokenWithAccount(appId, appCertificate, channelName,
\* userId, role, privilegeExpiredTs): the signed content of the token.
buildTokenWithAccount(appId, appCertificate, channelName, userId, role, expiry) ==
    [appId |-> appId, signedWith |-> appCertificate, channelName |-> channelName,
     account |-> userId, role |-> role, privilegeExpiredTs |-> expiry]

\* Mutant: only the application id is checked before the token is built.
AgoraTokenChecksAppIdOnly(e, channelName, userId, t) ==
    IF e.appId = Null
    THEN [outcome |-> ConfigError, ret |-> NoRet]
    ELSE IF ~e.tokenPackage
    THEN [outcome |-> InitError, ret |-> NoRet]
    ELSE [outcome |-> "ok",
          ret |-> [token |-> buildTokenWithAccount(
                                e.appId[1], e.appCertificate, channelName, userId,
                                "PUBLISHER",
                                (t \div MsPerSecond) + expirationTimeInSeconds),
                   channelName |-> channelName,
                   userId |-> userId,
                   appId |-> e.appId[1]]]

\* generateAgoraToken(channelName, userId) at time t: outcome and return value.
\* It looks at no session and at no caller identity.
AgoraToken(e, channelName, userId, t) ==
    IF e.appId = Null \/ e.appCertificate = Null
    THEN [outcome |-> ConfigError, ret |-> NoRet]
    ELSE IF ~e.tokenPackage
    THEN [outcome |-> InitError, ret |-> NoRet]
    ELSE [outcome |-> "ok",
          ret |-> [token |-> buildTokenWithAccount(
                                e.appId[1], e.appCertificate[1], channelName, userId,
                                "PUBLISHER",
                                (t \div MsPerSecond) + expirationTimeInSeconds),
                   channelName |-> channelName,
                   userId |-> userId,
                   appId |-> e.appId[1]]]

\* ---------------------------------------------------------------------------
\* Initial state
\* ---------------------------------------------------------------------------
\* The users who open the video client, and the session id it is opened for.
ClientUsers == {"T", "L"}
ClientSessionId == "s1"

\* VideoCall's state when it mounts (the useState defaults), before its effect
\* has run. patch, minted, failed, callEnds and ended are history: the outcome
\* of the status request of the join in hand, the status of the row when the
\* token in hand was minted, whether a join of this user has failed, how often
\* the end handler in hand called onCallEnd, and what its fetch came to: "ok",
\* "rejected" (a response that is not ok) or "transit" (the fetch rejected).
ClientInit ==
    [step |-> "unmounted", meetingRoom |-> Null, loading |-> TRUE, error |-> Null,
     inCall |-> FALSE, token |-> Null, appId |-> Null, uid |-> Null,
     patch |-> "", minted |-> "", failed |-> FALSE, callEnds |-> 0,
     ended |-> ""]

\* The row the scheduling workflow created: status scheduled, no actual times.
NewSession(teacherUserId, studentId) ==
    [teacherUserId |-> teacherUserId, studentId |-> studentId,
     status |-> "scheduled", actualStartTime |-> Null, actualEndTime |-> Null]

\* NEXT_PUBLIC_AGORA_APP_ID, AGORA_APP_CERTIFICATE, and whether
\* import('agora-access-token') resolves: fixed for the life of the deployment.
Envs ==
    [appId : {Null, Some("app")}, appCertificate : {Null, Some("cert")},
     tokenPackage : BOOLEAN]

\* Everything but the session table and the deployment.
InitState ==
    /\ now = 0
    /\ pc = [u \in Callers |-> "idle"]
    /\ req = [u \in Callers |-> NoReq]
    /\ last = NoCall
    /\ firstJoin = [s \in {"s1"} |-> {}]
    /\ writes = [s \in {"s1"} |-> [start |-> 0, end |-> 0]]
    /\ firstRoom = [s \in SessionIds |-> Null]
    /\ client = [c \in ClientUsers |-> ClientInit]
    /\ firstStart = Null

InitCommon ==
    /\ db = [s \in {"s1"} |-> NewSession("T", "L")]
    /\ InitState

\* The rows a booking can leave for s1: the teacher's user is T; the student is
\* L, or the account T itself.
Bookings == {NewSession("T", studentId) : studentId \in {"L", "T"}}

\* A configured deployment whose session s1 was booked by either account.
InitAnyBooking ==
    /\ db \in [{"s1"} -> Bookings]
    /\ InitState
    /\ env = [appId |-> Some("app"), appCertificate |-> Some("cert"),
              tokenPackage |-> TRUE]

\* A deployment with its video service configured.
Init ==
    /\ InitCommon
    /\ env = [appId |-> Some("app"), appCertificate |-> Some("cert"),
              tokenPackage |-> TRUE]

\* Any deployment.
InitAnyEnv ==
    /\ InitCommon
    /\ env \in Envs

\* ---------------------------------------------------------------------------
\* Actions
\* ---------------------------------------------------------------------------
\* Time passes.
Tick ==
    /\ now < MaxTime
    /\ now' = now + 1
    /\ UNCHANGED <<db, env, pc, req, last, firstJoin, writes, firstRoom>>
    /\ UNCHANGED clientVars

\* The first room id produced for a session id is remembered.
NoteRoom(sessionId, outcome, roomId) ==
    firstRoom' = IF outcome = "ok" /\ firstRoom[sessionId] = Null
                 THEN [firstRoom EXCEPT ![sessionId] = Some(roomId)]
                 ELSE firstRoom

\* createMeetingRoom(sessionId), called by u. Its prisma update carries empty
\* data, so the row keeps every field.
createMeetingRoom(u, sessionId) ==
    /\ pc[u] = "idle"
    /\ LET outcome == Guard(db, u, sessionId)
           roomId == createRoomId(sessionId, now)
       IN /\ last' = [caller |-> u, op |-> "createMeetingRoom",
                      sessionId |-> sessionId, arg |-> "", outcome |-> outcome,
                      seen |-> IF outcome = "ok" THEN db[sessionId].status ELSE "",
                      ret |-> IF outcome = "ok"
                              THEN [roomId |-> roomId, sessionId |-> sessionId,
                                    provider |-> "agora", status |-> "scheduled"]
                              ELSE NoRet]
          /\ NoteRoom(sessionId, outcome, roomId)
          /\ db' = IF outcome = "ok"
                   THEN [db EXCEPT ![sessionId] = RoomUpdateData(db[sessionId])]
                   ELSE db
    /\ UNCHANGED <<now, env, pc, req, firstJoin, writes>>
    /\ UNCHANGED clientVars

\* getMeetingRoom(sessionId), called by u.
getMeetingRoom(u, sessionId) ==
    /\ pc[u] = "idle"
    /\ LET outcome == Guard(db, u, sessionId)
           roomId == getRoomId(sessionId)
       IN /\ last' = [caller |-> u, op |-> "getMeetingRoom",
                      sessionId |-> sessionId, arg |-> "", outcome |-> outcome,
                      seen |-> IF outcome = "ok" THEN db[sessionId].status ELSE "",
                      ret |-> IF outcome = "ok"
                              THEN MeetingRoom(db[sessionId], u, sessionId)
                              ELSE NoRet]
          /\ NoteRoom(sessionId, outcome, roomId)
    /\ UNCHANGED <<db, now, env, pc, req, firstJoin, writes>>
    /\ UNCHANGED clientVars

\* updateSessionStatus(sessionId, status), called by u, up to its update: the
\* sign-in check, findUnique and the party check. A rejected call ends here.
updateSessionStatus_findUnique(u, sessionId, status) ==
    /\ pc[u] = "idle"
    /\ LET outcome == Guard(db, u, sessionId)
       IN IF outcome = "ok"
          THEN /\ pc' = [pc EXCEPT ![u] = "update"]
               /\ req' = [req EXCEPT ![u] = [sessionId |-> sessionId,
                                             status |-> status,
                                             seen |-> db[sessionId].status]]
               /\ UNCHANGED last
          ELSE /\ last' = [caller |-> u, op |-> "updateSessionStatus",
                           sessionId |-> sessionId, arg |-> status,
                           outcome |-> outcome,
                           seen |-> IF sessionId \in DOMAIN db
                                    THEN db[sessionId].status ELSE "",
                           ret |-> NoRet]
               /\ UNCHANGED <<pc, req>>
    /\ UNCHANGED <<db, now, env, firstJoin, writes, firstRoom>>
    /\ UNCHANGED clientVars

\* The rest of updateSessionStatus: prisma.liveSession.update on the row as it
\* is now, revalidatePath, return { success: true }.
updateSessionStatus_update(u) ==
    /\ pc[u] = "update"
    /\ LET sessionId == req[u].sessionId
           status == req[u].status
       IN /\ db' = [db EXCEPT ![sessionId] = StatusData(db[sessionId], status, now)]
          /\ last' = [caller |-> u, op |-> "updateSessionStatus",
                      sessionId |-> sessionId, arg |-> status, outcome |-> "ok",
                      seen |-> req[u].seen, ret |-> [success |-> TRUE]]
          /\ firstJoin' =
                IF status = "in_progress" /\ req[u].seen = "scheduled"
                THEN [firstJoin EXCEPT ![sessionId] = @ \cup {u}]
                ELSE firstJoin
          /\ writes' =
                [writes EXCEPT
                   ![sessionId].start =
                       IF status = "in_progress" THEN Min(@ + 1, WriteCap) ELSE @,
                   ![sessionId].end =
                       IF status = "completed" THEN Min(@ + 1, WriteCap) ELSE @]
    /\ pc' = [pc EXCEPT ![u] = "idle"]
    /\ req' = [req EXCEPT ![u] = NoReq]
    /\ UNCHANGED <<now, env, firstRoom>>
    /\ UNCHANGED clientVars

\* The channel names a token request may carry: room ids of either kind, or
\* any other string.
ChannelNames ==
    {getRoomId(s) : s \in SessionIds} \cup {createRoomId("s1", 0)} \cup {"lobby"}

\* generateAgoraToken(channelName, userId), called by u.
generateAgoraToken(u, channelName, userId) ==
    /\ pc[u] = "idle"
    /\ LET r == AgoraToken(env, channelName, userId, now)
       IN last' = [caller |-> u, op |-> "generateAgoraToken", sessionId |-> "",
                   arg |-> channelName, outcome |-> r.outcome, seen |-> "",
                   ret |-> r.ret]
    /\ UNCHANGED <<db, now, env, pc, req, firstJoin, writes, firstRoom>>
    /\ UNCHANGED clientVars

Next ==
    \/ Tick
    \/ \E u \in Callers, s \in SessionIds : createMeetingRoom(u, s)
    \/ \E u \in Callers, s \in SessionIds : getMeetingRoom(u, s)
    \/ \E u \in Callers, s \in SessionIds, st \in StatusArgs :
          updateSessionStatus_findUnique(u, s, st)
    \/ \E u \in Callers : updateSessionStatus_update(u)
    \/ \E u \in Callers, c \in ChannelNames, a \in AgoraUids :
          generateAgoraToken(u, c, a)

Spec == Init /\ [][Next]_vars

\* The lifecycle requests alone: joins and ends of the callers, interleaved.
NextLifecycle ==
    \/ Tick
    \/ \E u \in Callers, s \in SessionIds, st \in StatusArgs :
          updateSessionStatus_findUnique(u, s, st)
    \/ \E u \in Callers : updateSessionStatus_update(u)

SpecLifecycle == Init /\ [][NextLifecycle]_vars

\* The requests about rooms alone.
NextRoom ==
    \/ Tick
    \/ \E u \in Callers, s \in SessionIds : createMeetingRoom(u, s)
    \/ \E u \in Callers, s \in SessionIds : getMeetingRoom(u, s)

SpecRoom == Init /\ [][NextRoom]_vars

\* Session ids with a row each, among them ids that contain one another and
\* ids that look like a room id or carry a timestamp.
ResolveIds == {"s1", "s2", "s1_0", "room_s1"}

InitResolve ==
    /\ db = [s \in ResolveIds |-> NewSession("T", "L")]
    /\ now = 0
    /\ pc = [u \in Callers |-> "idle"]
    /\ req = [u \in Callers |-> NoReq]
    /\ last = NoCall
    /\ firstJoin = [s \in ResolveIds |-> {}]
    /\ writes = [s \in ResolveIds |-> [start |-> 0, end |-> 0]]
    /\ firstRoom = [s \in ResolveIds |-> Null]
    /\ client = [c \in ClientUsers |-> ClientInit]
    /\ firstStart = Null
    /\ env = [appId |-> Some("app"), appCertificate |-> Some("cert"),
              tokenPackage |-> TRUE]

\* Room lookups of several sessions.
NextResolve ==
    \E u \in Callers, s \in ResolveIds : getMeetingRoom(u, s)

SpecResolve == InitResolve /\ [][NextResolve]_vars

\* The requests about rooms, whoever booked the session.
SpecRoles == InitAnyBooking /\ [][NextRoom]_vars

\* Room lookups and token requests.
NextToken ==
    \/ Tick
    \/ \E u \in Callers, s \in SessionIds : getMeetingRoom(u, s)
    \/ \E u \in Callers, c \in ChannelNames, a \in AgoraUids :
          generateAgoraToken(u, c, a)

SpecToken == Init /\ [][NextToken]_vars

SpecAnyEnv == InitAnyEnv /\ [][Next]_vars

\* Room lookups and token requests, in any deployment.
SpecTokenAnyEnv == InitAnyEnv /\ [][NextToken]_vars

\* Every server action, all requests falling within one millisecond.
NextServer ==
    \/ \E u \in Callers, s \in SessionIds : createMeetingRoom(u, s)
    \/ \E u \in Callers, s \in SessionIds : getMeetingRoom(u, s)
    \/ \E u \in Callers, s \in SessionIds, st \in StatusArgs :
          updateSessionStatus_findUnique(u, s, st)
    \/ \E u \in Callers : updateSessionStatus_update(u)
    \/ \E u \in Callers, c \in ChannelNames, a \in AgoraUids :
          generateAgoraToken(u, c, a)

SpecServer == Init /\ [][NextServer]_vars

\* ---------------------------------------------------------------------------
\* The video client (components/video/VideoCall.tsx) and the /api/video-call
\* route between it and the server actions
\* ---------------------------------------------------------------------------
\* A fetch resolves with the response, or rejects (the request or the response
\* is lost in transit).
Net == {"ok", "fail"}
FetchFailed == "Failed to fetch"

\* A call of the session store answers, or throws.
Store == {"up", "down"}
StoreError == "TransientStoreError"
UpdateMissing == "Record to update not found"

\* The route: PATCH { sessionId, status } runs updateSessionStatus with the
\* status the client's string stands for; the response is ok exactly when the
\* server action returned.
RouteStatus(clientStatus) ==
    CASE clientStatus = "InProgress" -> "in_progress"
      [] clientStatus = "Completed" -> "completed"

\* The first half of updateSessionStatus behind the route: "ok" when the call
\* goes on to its update, else the way it is rejected.
RoutePatchRead(table, c, sessionId, store) ==
    IF store = "down" THEN StoreError ELSE Guard(table, c, sessionId)

\* The second half: the outcome of prisma.liveSession.update.
RoutePatchWrite(table, sessionId, store) ==
    IF store = "down" THEN StoreError
    ELSE IF sessionId \notin DOMAIN table THEN UpdateMissing
    ELSE "ok"

\* The table after the update of updateSessionStatus with that outcome.
Updated(table, sessionId, status, outcome, t) ==
    IF outcome = "ok"
    THEN [table EXCEPT ![sessionId] = StatusData(table[sessionId], status, t)]
    ELSE table

\* What is on screen (lines 150-226): the lobby with its Join button, or the
\* active call with its end button.
LobbyShown(cl) ==
    /\ cl.step = "idle"
    /\ ~cl.loading
    /\ cl.error = Null
    /\ cl.meetingRoom # Null
    /\ ~cl.inCall

CallShown(cl) ==
    /\ cl.step = "idle"
    /\ ~cl.loading
    /\ cl.error = Null
    /\ cl.meetingRoom # Null
    /\ cl.inCall

ErrorShown(cl) ==
    /\ cl.step = "idle"
    /\ ~cl.loading
    /\ cl.error # Null

\* Mutant: handleJoinCall without its finally: a failed join leaves the loader.
JoinFailedKeepsLoading(cl, message, patch) ==
    [cl EXCEPT !.step = "idle", !.loading = TRUE, !.error = Some(message),
               !.patch = patch, !.failed = TRUE]

\* catch (err) { setError(...) } finally { setLoading(false) } of handleJoinCall
JoinFailed(cl, message, patch) ==
    [cl EXCEPT !.step = "idle", !.loading = FALSE, !.error = Some(message),
               !.patch = patch, !.failed = TRUE]

\* Mutant: the catch of handleEndCall closes nothing.
CallEndedCatchKeepsCall(cl, ended) ==
    [cl EXCEPT !.step = "idle",
               !.inCall = IF ended = "transit" THEN @ ELSE FALSE,
               !.callEnds = IF ended = "transit" THEN 0 ELSE 1,
               !.ended = ended]

\* setInCall(false); onCallEnd?.() of handleEndCall, on either path.
CallEnded(cl, ended) ==
    [cl EXCEPT !.step = "idle", !.inCall = FALSE, !.callEnds = 1,
               !.ended = ended]

\* loadMeetingRoom, run by the mount effect or by the Try Again button:
\* GET /api/video-call?sessionId=... answered from getMeetingRoom.
loadMeetingRoom(c) ==
    /\ client[c].step = "unmounted" \/ ErrorShown(client[c])
    /\ \E net \in Net, store \in Store :
         LET g == RoutePatchRead(db, c, ClientSessionId, store)
         IN client' = [client EXCEPT ![c] =
              [@ EXCEPT
                 !.step = "idle",
                 !.loading = FALSE,
                 !.meetingRoom =
                     IF net = "ok" /\ g = "ok"
                     THEN Some(MeetingRoom(db[ClientSessionId], c, ClientSessionId))
                     ELSE @,
                 !.error =
                     IF net = "fail" THEN Some(FetchFailed)
                     ELSE IF g # "ok" THEN Some("Failed to load session details")
                     ELSE @]]
    /\ UNCHANGED <<db, now, env, pc, req, last, firstJoin, writes, firstRoom,
                   firstStart>>

\* The page is loaded again: the component mounts afresh.
remount(c) ==
    /\ client[c].step = "idle"
    /\ client' = [client EXCEPT ![c] = [ClientInit EXCEPT !.failed = client[c].failed]]
    /\ UNCHANGED <<db, now, env, pc, req, last, firstJoin, writes, firstRoom,
                   firstStart>>

\* handleJoinCall up to the party check of the status request it sends. The
\* response of that request is never looked at: only a rejected fetch throws.
handleJoinCall_patch(c) ==
    /\ LobbyShown(client[c])
    /\ \E net \in Net, store \in Store :
         LET g == RoutePatchRead(db, c, ClientSessionId, store)
         IN client' = [client EXCEPT ![c] =
              IF net = "fail" THEN JoinFailed(@, FetchFailed, "")
              ELSE IF g = "ok"
              THEN [@ EXCEPT !.step = "join_update", !.loading = TRUE, !.patch = ""]
              ELSE [@ EXCEPT !.step = "join_token", !.loading = TRUE, !.patch = g]]
    /\ UNCHANGED <<db, now, env, pc, req, last, firstJoin, writes, firstRoom,
                   firstStart>>

\* The update of the join's status request, and its response.
handleJoinCall_update(c) ==
    /\ client[c].step = "join_update"
    /\ \E net \in Net, store \in Store :
         LET w == RoutePatchWrite(db, ClientSessionId, store)
         IN /\ db' = Updated(db, ClientSessionId, RouteStatus("InProgress"), w, now)
            /\ firstStart' = IF w = "ok" /\ firstStart = Null
                             THEN Some(now) ELSE firstStart
            /\ client' = [client EXCEPT ![c] =
                 IF net = "fail" THEN JoinFailed(@, FetchFailed, w)
                 ELSE [@ EXCEPT !.step = "join_token", !.patch = w]]
    /\ UNCHANGED <<now, env, pc, req, last, firstJoin, writes, firstRoom>>

\* The token request of handleJoinCall: POST { action: "generateToken",
\* channelName: meetingRoom.roomId, uid } answered from generateAgoraToken.
handleJoinCall_token(c) ==
    /\ client[c].step = "join_token"
    /\ \E net \in Net :
         LET room == client[c].meetingRoom[1]
             r == AgoraToken(env, room.roomId,
                             IF room.isTeacher THEN "teacher" ELSE "student", now)
         IN client' = [client EXCEPT ![c] =
              IF net = "fail" THEN JoinFailed(@, FetchFailed, @.patch)
              ELSE IF r.outcome # "ok" THEN JoinFailed(@, r.outcome, @.patch)
              ELSE [@ EXCEPT
                      !.step = "idle",
                      !.loading = FALSE,
                      !.token = Some(r.ret.token),
                      !.appId = Some(r.ret.appId),
                      !.uid = Some(r.ret.userId),
                      !.inCall = TRUE,
                      !.minted = IF ClientSessionId \in DOMAIN db
                                 THEN db[ClientSessionId].status ELSE "missing"]]
    /\ UNCHANGED <<db, now, env, pc, req, last, firstJoin, writes, firstRoom,
                   firstStart>>

\* handleEndCall up to the party check of the status request it sends. When
\* the fetch rejects or the request is rejected, the call is closed at once.
handleEndCall_patch(c) ==
    /\ CallShown(client[c])
    /\ \E net \in Net, store \in Store :
         LET g == RoutePatchRead(db, c, ClientSessionId, store)
         IN client' = [client EXCEPT ![c] =
              IF net = "ok" /\ g = "ok"
              THEN [@ EXCEPT !.step = "end_update", !.callEnds = 0, !.ended = ""]
              ELSE CallEnded(@, IF net = "fail" THEN "transit" ELSE "rejected")]
    /\ UNCHANGED <<db, now, env, pc, req, last, firstJoin, writes, firstRoom,
                   firstStart>>

\* The update of the end's status request; then the call is closed whatever
\* became of the response, which may be lost after the update has committed.
handleEndCall_update(c) ==
    /\ client[c].step = "end_update"
    /\ \E net \in Net, store \in Store :
         LET w == RoutePatchWrite(db, ClientSessionId, store)
         IN /\ db' = Updated(db, ClientSessionId, RouteStatus("Completed"), w, now)
            /\ client' = [client EXCEPT ![c] =
                 CallEnded(@, IF net = "fail" THEN "transit"
                              ELSE IF w = "ok" THEN "ok" ELSE "rejected")]
    /\ UNCHANGED <<now, env, pc, req, last, firstJoin, writes, firstRoom,
                   firstStart>>

\* The session is cancelled outside this core: its row is removed.
externalCancel ==
    /\ ClientSessionId \in DOMAIN db
    /\ db' = [s \in DOMAIN db \ {ClientSessionId} |-> db[s]]
    /\ UNCHANGED <<now, env, pc, req, last, firstJoin, writes, firstRoom,
                   client, firstStart>>

\* One video client is open on the session at a time: a party's client acts
\* while the other party's is not mounted.
Alone(c) == \A d \in ClientUsers \ {c} : client[d].step = "unmounted"

\* The video client of either party, the clock, and cancellation.
NextClient ==
    \/ Tick
    \/ externalCancel
    \/ \E c \in ClientUsers : Alone(c) /\ loadMeetingRoom(c)
    \/ \E c \in ClientUsers : Alone(c) /\ remount(c)
    \/ \E c \in ClientUsers : Alone(c) /\ handleJoinCall_patch(c)
    \/ \E c \in ClientUsers : Alone(c) /\ handleJoinCall_update(c)
    \/ \E c \in ClientUsers : Alone(c) /\ handleJoinCall_token(c)
    \/ \E c \in ClientUsers : Alone(c) /\ handleEndCall_patch(c)
    \/ \E c \in ClientUsers : Alone(c) /\ handleEndCall_update(c)

SpecClient == Init /\ [][NextClient]_vars

\* The video client in any deployment.
SpecClientAnyEnv == InitAnyEnv /\ [][NextClient]_vars

\* ---------------------------------------------------------------------------
\* Vocabulary of the properties
\* ---------------------------------------------------------------------------
\* The tutor and the learner of a session, read from its row.
Parties(s) == {db[s].teacherUserId, db[s].studentId}

\* scheduled < in_progress < completed
Rank(status) ==
    CASE status = "scheduled" -> 0
      [] status = "in_progress" -> 1
      [] status = "completed" -> 2
      [] OTHER -> 3

\* This step is the write of caller u's updateSessionStatus(s, status).
WriteStep(u, s, status) ==
    /\ pc[u] = "update"
    /\ pc'[u] = "idle"
    /\ req[u].sessionId = s
    /\ req[u].status = status

\* This step completes a call of updateSessionStatus by u on s.
CallEnds(u, s) ==
    /\ last' # last
    /\ last'.op = "updateSessionStatus"
    /\ last'.caller = u
    /\ last'.sessionId = s

\* ---------------------------------------------------------------------------
\* C1. Every credential issued for the channel of a session was issued to a
\* caller who is the tutor or the learner of that session.
\* ---------------------------------------------------------------------------
C1_CredentialOnlyToParties ==
    \A s \in DOMAIN db :
        ( /\ last.op = "generateAgoraToken"
          /\ last.outcome = "ok"
          /\ last.ret.channelName = getRoomId(s) )
        => last.caller \in Parties(s)

\* ---------------------------------------------------------------------------
\* C2. No step moves a session's status backward in the order
\* scheduled, in_progress, completed.
\* ---------------------------------------------------------------------------
C2_StatusMonotonic ==
    [][\A s \in DOMAIN db : Rank(db'[s].status) >= Rank(db[s].status)]_vars

\* ---------------------------------------------------------------------------
\* C3. Once the actual start time of a session is set, no step changes it.
\* ---------------------------------------------------------------------------
C3_StartTimeWrittenOnce ==
    [][\A s \in DOMAIN db :
          db[s].actualStartTime # Null
          => db'[s].actualStartTime = db[s].actualStartTime]_vars

\* ---------------------------------------------------------------------------
\* C4. A join (updateSessionStatus to in_progress) by a party of a session that
\* is scheduled or in_progress is never rejected and returns success; on a
\* scheduled session it sets the status to in_progress and records the time of
\* the write as the actual start time; a following join by the other party,
\* requested when the session is already in_progress, returns success and is
\* a no-op: it leaves the row, status in_progress included, as it was.
\* ---------------------------------------------------------------------------
C4_JoinThenJoinIsNoOp ==
    [][\A s \in DOMAIN db : \A u \in Parties(s) :
          /\ (CallEnds(u, s) /\ last'.arg = "in_progress"
                             /\ last'.seen \in {"scheduled", "in_progress"})
             => last'.outcome = "ok"
          /\ (WriteStep(u, s, "in_progress") /\ db[s].status = "scheduled")
             => /\ last'.outcome = "ok"
                /\ db'[s].status = "in_progress"
                /\ db'[s].actualStartTime = Some(now)
          /\ ( WriteStep(u, s, "in_progress")
               /\ req[u].seen = "in_progress"
               /\ db[s].status = "in_progress"
               /\ firstJoin[s] # {}
               /\ u \notin firstJoin[s] )
             => /\ last'.outcome = "ok"
                /\ db'[s] = db[s]]_vars

\* ---------------------------------------------------------------------------
\* C5. A join by a party requested on a completed session fails with
\* SessionEnded and leaves the row as it was.
\* ---------------------------------------------------------------------------
C5_JoinAfterCompletedFails ==
    [][\A s \in DOMAIN db : \A u \in Parties(s) :
          ( /\ CallEnds(u, s)
            /\ last'.arg = "in_progress"
            /\ last'.seen = "completed" )
          => /\ last'.outcome = "SessionEnded"
             /\ db'[s] = db[s]]_vars

\* ---------------------------------------------------------------------------
\* C6. A join or an end by an authenticated identity that is no party of the
\* session is rejected as unauthorized before any write: the call never
\* reaches its update, and the row is unchanged when the call ends.
\* ---------------------------------------------------------------------------
C6_OutsiderRejected ==
    [][\A s \in DOMAIN db : \A u \in Users \ Parties(s) :
          /\ ~(pc'[u] = "update" /\ req'[u].sessionId = s)
          /\ CallEnds(u, s)
             => /\ last'.outcome = Unauthorized
                /\ db'[s] = db[s]]_vars

\* An outsider's request was rejected on a session that is no longer scheduled.
C6_Witness ==
    /\ last.op = "updateSessionStatus"
    /\ last.caller = "X"
    /\ last.sessionId = "s1"
    /\ last.outcome = Unauthorized
    /\ db["s1"].status # "scheduled"

\* ---------------------------------------------------------------------------
\* C7. An end requested by a party on a session that is already completed
\* returns success and leaves the actual end time at the value the earlier end
\* wrote.
\* ---------------------------------------------------------------------------
C7_SecondEndKeepsEndTime ==
    [][\A s \in DOMAIN db : \A u \in Parties(s) :
          ( /\ WriteStep(u, s, "completed")
            /\ req[u].seen = "completed"
            /\ db[s].status = "completed" )
          => /\ last'.outcome = "ok"
             /\ db'[s].actualEndTime = db[s].actualEndTime]_vars

\* ---------------------------------------------------------------------------
\* C8. An end (updateSessionStatus to completed) by a party, requested on a
\* session that is scheduled or in_progress, is never rejected and returns
\* success; it sets the status to completed, records the time of the write as
\* the actual end time and leaves the actual start time as it was (unset, if
\* the session was never joined).
\* ---------------------------------------------------------------------------
C8_EndCompletes ==
    [][\A s \in DOMAIN db : \A u \in Parties(s) :
          /\ (CallEnds(u, s) /\ last'.arg = "completed") => last'.outcome = "ok"
          /\ ( WriteStep(u, s, "completed")
               /\ req[u].seen \in {"scheduled", "in_progress"} )
             => /\ last'.outcome = "ok"
                /\ db'[s].status = "completed"
                /\ db'[s].actualEndTime = Some(now)
                /\ db'[s].actualStartTime = db[s].actualStartTime]_vars

\* A session that was never joined has been ended.
C8_Witness ==
    /\ last.op = "updateSessionStatus"
    /\ last.arg = "completed"
    /\ last.outcome = "ok"
    /\ last.seen = "scheduled"
    /\ db[last.sessionId].status = "completed"
    /\ db[last.sessionId].actualStartTime = Null
    /\ db[last.sessionId].actualEndTime # Null

\* ---------------------------------------------------------------------------
\* C9. When both parties' joins of a scheduled session have returned success,
\* each having read the status scheduled, exactly one write of in_progress and
\* of the actual start time has taken effect.
\* ---------------------------------------------------------------------------
C9_ConcurrentJoinsWriteOnce ==
    \A s \in DOMAIN db :
        (Cardinality(Parties(s)) = 2 /\ Parties(s) \subseteq firstJoin[s])
        => writes[s].start = 1

\* ---------------------------------------------------------------------------
\* C10. Every call that produces a room id for a session id produces the id
\* that the first such call produced, whatever the time of the call.
\* ---------------------------------------------------------------------------
C10_RoomIdFunctionOfSessionId ==
    \A s \in SessionIds :
        ( /\ last.op \in {"createMeetingRoom", "getMeetingRoom"}
          /\ last.outcome = "ok"
          /\ last.sessionId = s
          /\ firstRoom[s] # Null )
        => last.ret.roomId = firstRoom[s][1]

\* ---------------------------------------------------------------------------
\* C11. getMeetingRoom and updateSessionStatus (join or end) called by an
\* authenticated caller on a session id that has no row end with "Session not
\* found", return nothing, never reach the update, and leave the table as it
\* was: no row is created or modified.
\* ---------------------------------------------------------------------------
C11_MissingSessionNotFound ==
    [][\A s \in SessionIds \ DOMAIN db : \A u \in Users :
          /\ ~(pc'[u] = "update" /\ req'[u].sessionId = s)
          /\ ( /\ last' # last
               /\ last'.op \in {"getMeetingRoom", "updateSessionStatus"}
               /\ last'.caller = u
               /\ last'.sessionId = s )
             => /\ last'.outcome = NotFound
                /\ last'.ret = NoRet
                /\ db' = db]_vars

\* A join on the id without a row was answered "Session not found" while the
\* existing session was already under way.
C11_Witness ==
    /\ last.op = "updateSessionStatus"
    /\ last.arg = "in_progress"
    /\ last.caller \in Users
    /\ last.sessionId \notin DOMAIN db
    /\ last.outcome = NotFound
    /\ db["s1"].status # "scheduled"

\* ---------------------------------------------------------------------------
\* C12. When the application id or the certificate is missing, generateAgoraToken
\* ends with the configuration error and returns nothing, whether or not the
\* token package could have been loaded (the check comes before the import and
\* the signing); when both are present it never ends with that error.
\* ---------------------------------------------------------------------------
C12_ConfigurationError ==
    last.op = "generateAgoraToken"
    => /\ (env.appId = Null \/ env.appCertificate = Null)
          => (last.outcome = ConfigError /\ last.ret = NoRet)
       /\ (env.appId # Null /\ env.appCertificate # Null)
          => last.outcome # ConfigError

\* A token request met a deployment that has the application id but not the
\* certificate, and whose token package is missing too.
C12_Witness ==
    /\ last.op = "generateAgoraToken"
    /\ env.appId # Null
    /\ env.appCertificate = Null
    /\ ~env.tokenPackage
    /\ last.outcome = ConfigError

\* ---------------------------------------------------------------------------
\* C16. When a join and an end race, a join whose update was decided on a read
\* of a status other than completed, and that reaches its write after the end
\* has committed completed, takes the no-op path: it returns success and leaves
\* the row, status completed included, as it is.
\* ---------------------------------------------------------------------------
C16_StaleJoinIsNoOp ==
    [][\A s \in DOMAIN db : \A u \in Parties(s) :
          ( /\ WriteStep(u, s, "in_progress")
            /\ req[u].seen # "completed"
            /\ db[s].status = "completed" )
          => /\ last'.outcome = "ok"
             /\ db'[s] = db[s]]_vars

\* ---------------------------------------------------------------------------
\* C17. When both parties end an in_progress session concurrently, the end
\* that reaches its write after the other end has committed returns success,
\* leaves the status completed and leaves the actual end time at the value the
\* first write gave it: one write of the end time takes effect.
\* ---------------------------------------------------------------------------
C17_ConcurrentEndsWriteOnce ==
    [][\A s \in DOMAIN db : \A u \in Parties(s) :
          ( /\ WriteStep(u, s, "completed")
            /\ req[u].seen = "in_progress"
            /\ db[s].status = "completed"
            /\ writes[s].end = 1 )
          => /\ last'.outcome = "ok"
             /\ db'[s].status = "completed"
             /\ db'[s].actualEndTime = db[s].actualEndTime
             /\ writes'[s].end = 1]_vars

\* ---------------------------------------------------------------------------
\* C19. getMeetingRoom, createMeetingRoom and generateAgoraToken leave every
\* session row as it was (status, actual start time, actual end time), whether
\* they return or are rejected.
\* ---------------------------------------------------------------------------
C19_OnlyLifecycleWrites ==
    [][( /\ last' # last
         /\ last'.op \in {"getMeetingRoom", "createMeetingRoom",
                          "generateAgoraToken"} )
       => db' = db]_vars

\* createMeetingRoom has returned for a session that is under way.
C19_Witness ==
    /\ last.op = "createMeetingRoom"
    /\ last.outcome = "ok"
    /\ db[last.sessionId].status = "in_progress"
    /\ db[last.sessionId].actualStartTime # Null

\* ---------------------------------------------------------------------------
\* C20. No step removes or adds a session row, and no step changes the tutor
\* or the learner of a session.
\* ---------------------------------------------------------------------------
C20_PartiesAndRowsKept ==
    [][/\ DOMAIN db' = DOMAIN db
       /\ \A s \in DOMAIN db :
             /\ db'[s].teacherUserId = db[s].teacherUserId
             /\ db'[s].studentId = db[s].studentId]_vars

\* A session was joined and ended, and still has its two parties.
C20_Witness ==
    /\ db["s1"].status = "completed"
    /\ db["s1"].actualStartTime # Null
    /\ db["s1"].actualEndTime # Null
    /\ db["s1"].teacherUserId = "T"
    /\ db["s1"].studentId = "L"

\* ---------------------------------------------------------------------------
\* The video client
\* ---------------------------------------------------------------------------
PersistedStatuses == {"scheduled", "in_progress", "completed"}

\* C13: a client is in the call with a credential only if the status request
\* of that join was accepted and the session was in_progress when the
\* credential was minted; a join whose status update was rejected or failed
\* yields no credential.
C13_CredentialOnlyAfterTransition ==
    \A c \in ClientUsers :
        client[c].inCall =>
            /\ client[c].patch = "ok"
            /\ client[c].minted = "in_progress"

\* C14: when a join that follows a failed join of the same client succeeds,
\* the session is in_progress and its actual start time is that of the first
\* committed transition.
C14_RetryKeepsFirstStart ==
    [][\A c \in ClientUsers :
          ( /\ client[c].failed
            /\ client[c].step = "join_token"
            /\ client[c].patch = "ok"
            /\ client'[c].inCall
            /\ ClientSessionId \in DOMAIN db' )
          => /\ db'[ClientSessionId].status = "in_progress"
             /\ db'[ClientSessionId].actualStartTime = firstStart']_vars

C18_RejectedJoinGetsNoCredential ==
    [][\A c \in ClientUsers :
          ( /\ client[c].step = "join_token"
            /\ client[c].meetingRoom # Null
            /\ client[c].patch \in {NotFound, Unauthorized} )
          => /\ ~client'[c].inCall
             /\ client'[c].token = Null]_vars

\* ---------------------------------------------------------------------------
\* Timestamps, roles, credentials, room ids, the client's call state
\* ---------------------------------------------------------------------------
\* C21: the timestamps agree with the status: a scheduled session has neither
\* actual time, a session has its actual end time exactly when it is
\* completed, and an in_progress session has its start time and no end time.
C21_TimestampsAgreeWithStatus ==
    \A s \in DOMAIN db :
        /\ db[s].status = "scheduled" =>
              db[s].actualStartTime = Null /\ db[s].actualEndTime = Null
        /\ db[s].actualEndTime # Null <=> db[s].status = "completed"
        /\ db[s].status = "in_progress" =>
              db[s].actualStartTime # Null /\ db[s].actualEndTime = Null

\* C22: a successful room lookup tells the caller exactly one of the two
\* roles: isTeacher and isStudent are never both true and never both false,
\* also when one account is the teacher's user and the student of the session.
C22_ExactlyOneRole ==
    (last.op = "getMeetingRoom" /\ last.outcome = "ok")
        => last.ret.isTeacher # last.ret.isStudent

\* The fields of a liveSession row.
RowFields == DOMAIN NewSession("T", "L")

\* A step of handleJoinCall in the client of c: the click on the Join button
\* of the lobby, or what follows one of its requests.
JoinStep(c) ==
    \/ client[c].step \in {"join_update", "join_token"}
    \/ /\ LobbyShown(client[c])
       /\ client'[c] # client[c]
       /\ client'[c].step # "unmounted"

\* C23: a join hands its caller one credential when it succeeds, which takes
\* its status request to have been accepted, and none when it fails; no row
\* of the session table ever holds a credential.
C23_OneCredentialPerJoin ==
    [][/\ \A c \in ClientUsers :
             JoinStep(c) =>
                 IF client'[c].inCall
                 THEN /\ client[c].patch = "ok"
                      /\ client'[c].token # Null
                 ELSE client'[c].token = client[c].token
       /\ \A s \in DOMAIN db' : DOMAIN db'[s] = RowFields]_vars

\* C24: a token request that succeeds at time now signs the expiry
\* floor(now / 1000) + 3600 whatever the uid and the channel, and returns the
\* expiry to the caller together with the token and the channel id.
C24_ExpiryFixedAndReturned ==
    [][(last' # last /\ last'.op = "generateAgoraToken" /\ last'.outcome = "ok")
          => /\ last'.ret.token.privilegeExpiredTs =
                   (now \div MsPerSecond) + expirationTimeInSeconds
             /\ last'.ret.channelName = last'.arg
             /\ "expiry" \in DOMAIN last'.ret
             /\ last'.ret.expiry = last'.ret.token.privilegeExpiredTs]_vars

\* C25: the room ids getMeetingRoom resolves for two different session ids
\* are different.
C25_RoomIdInjective ==
    \A s, t \in DOMAIN firstRoom :
        (s # t /\ firstRoom[s] # Null /\ firstRoom[t] # Null)
            => firstRoom[s] # firstRoom[t]

C25_Witness ==
    /\ \A s \in ResolveIds : firstRoom[s] # Null
    /\ last.op = "getMeetingRoom"
    /\ last.outcome = "ok"

\* C26: the client is in the call only with token, appId and uid set, and they
\* are those of the token response of the join that entered the call; a join
\* whose token request fails leaves the client out of the call with an error
\* recorded and its loader off.
C26_InCallOnlyWithCredentials ==
    [][\A c \in ClientUsers :
          /\ client'[c].inCall =>
                /\ client'[c].token # Null
                /\ client'[c].appId # Null
                /\ client'[c].uid # Null
          /\ (client[c].step = "join_token" /\ client'[c] # client[c]) =>
                LET room == client[c].meetingRoom[1]
                IN IF client'[c].inCall
                   THEN /\ client'[c].token[1].channelName = room.roomId
                        /\ client'[c].token[1].account = client'[c].uid[1]
                        /\ client'[c].uid =
                              Some(IF room.isTeacher THEN "teacher" ELSE "student")
                        /\ client'[c].appId = env.appId
                        /\ client'[c].error = Null
                        /\ ~client'[c].loading
                   ELSE /\ client'[c].error # Null
                        /\ ~client'[c].loading
                        /\ client'[c].token = client[c].token]_vars

C26_Witness ==
    \E c \in ClientUsers :
        /\ client[c].step = "idle"
        /\ client[c].error = Some(ConfigError)
        /\ ~client[c].inCall
        /\ ~client[c].loading

\* A step that finishes handleEndCall in the client of c.
EndFinishes(c) ==
    /\ client[c].inCall
    /\ client[c].step \in {"idle", "end_update"}
    /\ client'[c] # client[c]
    /\ client'[c].step = "idle"

====
